---- MODULE Spec2Model ----
(***************************************************************************)
(* PyJ2534: a ctypes binding of a J2534-1 Pass-Thru driver DLL.            *)
(*                                                                         *)
(* The model follows one J2534Dll instance.  A step is one call of a       *)
(* public operation by the caller (or of the module function               *)
(* _get_error_text): the caller picks the arguments, the vendor DLL picks  *)
(* the status code and whatever it writes through the output pointers, and *)
(* the step records the native calls that were made and how the operation  *)
(* ended (a returned value or a raised exception).                         *)
(*                                                                         *)
(* Python integers that can exceed 31 bits (status codes, voltages) are    *)
(* pairs <<hi, lo>> standing for hi * 65536 + lo with lo in 0..65535.      *)
(* Every record field holds values of one shape throughout the model.      *)
(***************************************************************************)
EXTENDS Integers, Sequences, FiniteSets, TLC

VARIABLES
    op,         \* name of the operation called last ("" before any call)
    args,       \* the arguments the caller gave it
    calls,      \* the native calls made during that call, in order
    outcome,    \* how it ended: a returned value or a raised exception
    log,        \* the warnings it sent to the module logger, in order
    released    \* handles the driver has closed, disconnected or stopped
                \* (the driver's state, followed under SpecLifecycle; the
                \* instance keeps no record of it)

vars == <<op, args, calls, outcome, log, released>>

----------------------------------------------------------------------------
(* Bounds of the exploration *)

\* status codes 0 .. MaxLowCode are all explored, next to the band edges
MaxLowCode == 30
\* longest message list / largest read count the caller uses
MaxMsgs == 2
\* longest parameter list / mapping the caller passes to the config ioctls
MaxParams == 2
\* handles the caller passes are 0 .. MaxHandle
MaxHandle == 1
\* released handles that are followed
MaxReleased == 2

----------------------------------------------------------------------------
(* Python values *)

\* integers are <<hi, lo>> pairs
I(n) == <<0, n>>

IntLt(a, b) == a[1] < b[1] \/ (a[1] = b[1] /\ a[2] < b[2])

\* the native functions return a C long; ctypes hands restype the value read
\* as a signed C int
CInt(raw) == IF raw[1] >= 32768 THEN <<raw[1] - 65536, raw[2]>> ELSE raw

\* objects: every object names its class; an int, an IntEnum member (which
\* also has a name) and a c_ulong carry their integer in value
None == [cls |-> "NoneType"]
PyInt(v) == [cls |-> "int", name |-> "", value |-> v]
c_ulong(v) == [cls |-> "c_ulong", name |-> "", value |-> <<v[1] % 65536, v[2]>>]
PyStr(s) == [cls |-> "str", text |-> s]
PyBytes(s) == [cls |-> "bytes", text |-> s]
PyList(q) == [cls |-> "list", items |-> q]
PyDict(f) == [cls |-> "dict", map |-> f]

\* how a call ends
Return(v) == [kind |-> "return", result |-> v]
Raise(e) == [kind |-> "raise", exc |-> e]

Min(a, b) == IF a < b THEN a ELSE b

\* an optional argument or a pointer is <<>> (None, NULL) or <<v>>
Opt(S) == {<<>>} \cup {<<v>> : v \in S}

----------------------------------------------------------------------------
(* error.py *)

J2534ErrorsNames ==
    << "STATUS_NOERROR", "ERR_NOT_SUPPORTED", "ERR_INVALID_CHANNEL_ID",
       "ERR_INVALID_PROTOCOL_ID", "ERR_NULL_PARAMETER",
       "ERR_INVALID_IOCTL_VALUE", "ERR_INVALID_FLAGS", "ERR_FAILED",
       "ERR_DEVICE_NOT_CONNECTED", "ERR_TIMEOUT", "ERR_INVALID_MSG",
       "ERR_INVALID_TIME_INTERVAL", "ERR_EXCEEDED_LIMIT",
       "ERR_INVALID_MSG_ID", "ERR_DEVICE_IN_USE", "ERR_INVALID_IOCTL_ID",
       "ERR_BUFFER_EMPTY", "ERR_BUFFER_FULL", "ERR_BUFFER_OVERFLOW",
       "ERR_PIN_INVALID", "ERR_CHANNEL_IN_USE", "ERR_MSG_PROTOCOL_ID",
       "ERR_INVALID_FILTER_ID", "ERR_NO_FLOW_CONTROL", "ERR_NOT_UNIQUE",
       "ERR_INVALID_BAUDRATE", "ERR_INVALID_DEVICE_ID",
       "RESERVED_J2534_1" >>

\* the members of the IntEnum: name |-> value (0x00 .. 0x1B in the order
\* above, and RESERVED_J2534_2 = 0x10000)
J2534Errors ==
    [n \in {J2534ErrorsNames[i] : i \in 1..Len(J2534ErrorsNames)}
           \cup {"RESERVED_J2534_2"} |->
        IF n = "RESERVED_J2534_2" THEN <<1, 0>>
        ELSE I((CHOOSE i \in 1..Len(J2534ErrorsNames) :
                    J2534ErrorsNames[i] = n) - 1)]

Member(n) == [cls |-> "J2534Errors", name |-> n, value |-> J2534Errors[n]]

\* J2534Errors(v): the member with value v, ValueError when there is none
J2534Errors_call(v) ==
    IF \E n \in DOMAIN J2534Errors : J2534Errors[n] = v
    THEN Return(Member(CHOOSE n \in DOMAIN J2534Errors : J2534Errors[n] = v))
    ELSE Raise([type |-> "ValueError"])

_error_msg_map ==
    [n \in DOMAIN J2534Errors |->
      CASE n = "STATUS_NOERROR" -> "Function call successful"
        [] n = "ERR_NOT_SUPPORTED" -> "Device cannot support requested functionality mandated in this document. Device is not fully SAE J2534 compliant"
        [] n = "ERR_INVALID_CHANNEL_ID" -> "Invalid ChannelID value"
        [] n = "ERR_INVALID_PROTOCOL_ID" -> "Invalid ProtocolID value, unsupported ProtocolID, or there is a resource conflict (i.e. trying to connect to multiple protocols that are mutually exclusive such as J1850PWM and J1850VPW, or CAN and SCI A, etc.)"
        [] n = "ERR_NULL_PARAMETER" -> "NULL pointer supplied where a valid pointer is required"
        [] n = "ERR_INVALID_IOCTL_VALUE" -> "Invalid value for Ioctl parameter"
        [] n = "ERR_INVALID_FLAGS" -> "Invalid flag values"
        [] n = "ERR_FAILED" -> "Undefined error, use PassThruGetLastError for text description"
        [] n = "ERR_DEVICE_NOT_CONNECTED" -> "Device ID invalid"
        [] n = "ERR_TIMEOUT" -> "Timeout. PassThruReadMsg: No message available to read or could not read the specified number of messages. The actual number of messages read is placed in <NumMsgs> PassThruWriteMsg: Device could not write the specified number of messages. The actual number of messages sent on the vehicle network is placed in <NumMsgs>."
        \* the source has an en dash after "Section 8"
        [] n = "ERR_INVALID_MSG" -> "Invalid message structure pointed to by pMsg (Reference Section 8 - Message Structure)"
        [] n = "ERR_INVALID_TIME_INTERVAL" -> "Invalid TimeInterval value"
        [] n = "ERR_EXCEEDED_LIMIT" -> "Exceeded maximum number of message IDs or allocated space"
        [] n = "ERR_INVALID_MSG_ID" -> "Invalid MsgID value"
        [] n = "ERR_DEVICE_IN_USE" -> "Device is currently open"
        [] n = "ERR_INVALID_IOCTL_ID" -> "Invalid IoctlID value"
        [] n = "ERR_BUFFER_EMPTY" -> "Protocol message buffer empty, no messages available to read"
        [] n = "ERR_BUFFER_FULL" -> "Protocol message buffer full. All the messages specified may not have been transmitted"
        [] n = "ERR_BUFFER_OVERFLOW" -> "Indicates a buffer overflow occurred and messages were lost"
        [] n = "ERR_PIN_INVALID" -> "Invalid pin number, pin number already in use, or voltage already applied to a different pin"
        [] n = "ERR_CHANNEL_IN_USE" -> "Channel number is currently connected"
        [] n = "ERR_MSG_PROTOCOL_ID" -> "Protocol type in the message does not match the protocol associated with the Channel ID"
        [] n = "ERR_INVALID_FILTER_ID" -> "Invalid Filter ID value"
        [] n = "ERR_NO_FLOW_CONTROL" -> "No flow control filter set or matched (for protocolID ISO15765 only)."
        [] n = "ERR_NOT_UNIQUE" -> "A CAN ID in pPatternMsg or pFlowControlMsg matches either ID in an existing FLOW_CONTROL_FILTER"
        [] n = "ERR_INVALID_BAUDRATE" -> "The desired baud rate cannot be achieved within the tolerance specified in Section 6.5"
        [] n = "ERR_INVALID_DEVICE_ID" -> "Unable to communicate with device"
        [] n = "RESERVED_J2534_1" -> "Reserved for SAE J2534-1"
        [] n = "RESERVED_J2534_2" -> "Reserved for SAE J2534-2"]

\* a variant that ends the first reserved band one code early
_get_error_text_M(err) ==
    IF err.cls \in {"int", "J2534Errors"}
    THEN LET errorID ==
                 IF IntLt(err.value, J2534Errors["RESERVED_J2534_1"])
                 THEN J2534Errors_call(err.value)
                 ELSE IF IntLt(err.value, <<0, 65535>>)
                 THEN Return(Member("RESERVED_J2534_1"))
                 ELSE Return(Member("RESERVED_J2534_2"))
         IN  IF errorID.kind = "raise" THEN errorID
             ELSE Return(PyStr(_error_msg_map[errorID.result.name]))
    ELSE Return(PyStr("Invalid error"))

\* _get_error_text(err): the description of a status code.  An IntEnum
\* member is an int, so both take the first branch; every member is a key of
\* _error_msg_map, so the default of .get() is never used.
_get_error_text(err) ==
    IF err.cls \in {"int", "J2534Errors"}
    THEN LET errorID ==
                 IF IntLt(err.value, J2534Errors["RESERVED_J2534_1"])
                 THEN J2534Errors_call(err.value)
                 ELSE IF IntLt(err.value, J2534Errors["RESERVED_J2534_2"])
                 THEN Return(Member("RESERVED_J2534_1"))
                 ELSE Return(Member("RESERVED_J2534_2"))
         IN  IF errorID.kind = "raise" THEN errorID
             ELSE Return(PyStr(_error_msg_map[errorID.result.name]))
    ELSE Return(PyStr("Invalid error"))

\* J2534Error(j2534_error): the exception object, or the exception its
\* constructor raises (self.error.name needs an enumeration member)
J2534Error(j2534_error) ==
    LET message == _get_error_text(j2534_error)
    IN  IF message.kind = "raise" THEN message.exc
        ELSE IF j2534_error.cls # "J2534Errors"
        THEN [type |-> "AttributeError"]
        ELSE [type |-> "J2534Error",
              error |-> j2534_error,
              message |-> message.result.text,
              str |-> "[" \o j2534_error.name \o "] "
                          \o message.result.text]

----------------------------------------------------------------------------
(* define.py *)

FilterType ==
    [PASS_FILTER |-> 1, BLOCK_FILTER |-> 2, FLOW_CONTROL_FILTER |-> 3,
     RESERVED |-> 4]

ProgrammingVoltage ==
    [Voltage_05V |-> <<0, 5000>>, Voltage_20V |-> <<0, 20000>>,
     MIN_VOLTAGE |-> <<0, 5000>>, MAX_VOLTAGE |-> <<0, 20000>>,
     SHORT_TO_GROUND |-> <<65535, 65534>>, VOLTAGE_OFF |-> <<65535, 65535>>]

ProgrammingPin == {0, 6, 9, 11, 12, 13, 14, 15}

IoctlID ==
    [GET_CONFIG |-> 1, SET_CONFIG |-> 2, READ_VBATT |-> 3,
     FIVE_BAUD_INIT |-> 4, FAST_INIT |-> 5, CLEAR_TX_BUFFER |-> 7,
     CLEAR_RX_BUFFER |-> 8, CLEAR_PERIODIC_MSGS |-> 9,
     CLEAR_MSG_FILTERS |-> 10, CLEAR_FUNCT_MSG_LOOKUP_TABLE |-> 11,
     ADD_TO_FUNCT_MSG_LOOKUP_TABLE |-> 12,
     DELETE_FROM_FUNCT_MSG_LOOKUP_TABLE |-> 13, READ_PROG_VOLTAGE |-> 14]

IoctlParameter ==
    [DATA_RATE |-> 1, LOOPBACK |-> 3, NODE_ADDRESS |-> 4,
     NETWORK_LINE |-> 5, P1_MIN |-> 6, P1_MAX |-> 7, P2_MIN |-> 8,
     P2_MAX |-> 9, P3_MIN |-> 10, P3_MAX |-> 11, P4_MIN |-> 12,
     P4_MAX |-> 13, W0 |-> 25, W1 |-> 14, W2 |-> 15, W3 |-> 16, W4 |-> 17,
     W5 |-> 18, TIDLE |-> 19, TINIL |-> 20, TWUP |-> 21, PARITY |-> 22,
     BIT_SAMPLE_POINT |-> 23, SYNC_JUMP_WIDTH |-> 24, T1_MAX |-> 26,
     T2_MAX |-> 27, T3_MAX |-> 36, T4_MAX |-> 28, T5_MAX |-> 29,
     ISO15765_BS |-> 30, ISO15765_STMIN |-> 31, BS_TX |-> 34,
     STMIN_TX |-> 35, DATA_BITS |-> 32, FIVE_BAUD_MOD |-> 33,
     ISO15765_WFT_MAX |-> 37]

\* SCONFIG(parameter, value)
SCONFIG(parameter, value) == [_Parameter |-> parameter, Value |-> value]

\* SCONFIG_LIST(sconfig_arr)
SCONFIG_LIST(sconfig_arr) ==
    [NumOfParams |-> Len(sconfig_arr), Config |-> sconfig_arr]

\* SBYTE_ARRAY(byte_arr)
SBYTE_ARRAY(byte_arr) == [NumOfBytes |-> Len(byte_arr), BytePtr |-> byte_arr]

\* a variant that leaves the extra-data index at zero
PASSTHRU_MSG_M(protocol, tx_flags, data) ==
    [_ProtocolID |-> protocol, _RxStatus |-> 0, _TxFlags |-> tx_flags,
     Timestamp |-> 0, DataSize |-> Len(data), ExtraDataIndex |-> 0,
     _Data |-> data]

\* PASSTHRU_MSG(protocol, tx_flags=..., data=...): a message for
\* transmission.  _Data holds the bytes written; the rest of the 4128-byte
\* array is zero.
PASSTHRU_MSG(protocol, tx_flags, data) ==
    [_ProtocolID |-> protocol, _RxStatus |-> 0, _TxFlags |-> tx_flags,
     Timestamp |-> 0, DataSize |-> Len(data), ExtraDataIndex |-> Len(data),
     _Data |-> data]

\* PASSTHRU_MSG(): the zeroed receive buffer
PASSTHRU_MSG_empty ==
    [_ProtocolID |-> 0, _RxStatus |-> 0, _TxFlags |-> 0,
     Timestamp |-> 0, DataSize |-> 0, ExtraDataIndex |-> 0, _Data |-> <<>>]

\* the length of the _Data array of a PASSTHRU_MSG
_Data_length == 4128

\* _Data[i] for an index 0 <= i < _Data_length
ArrayByte(buf, i) == IF i < Len(buf) THEN buf[i + 1] ELSE 0

\* _Data[a:b] for a, b >= 0: a slice stops at the end of the array
ArraySlice(buf, a, b) ==
    LET lo == Min(a, _Data_length)
        hi == Min(b, _Data_length)
    IN  IF hi <= lo THEN <<>>
        ELSE [i \in 1..(hi - lo) |-> ArrayByte(buf, lo + i - 1)]

\* a bytes object given by its bytes
PyByteSeq(q) == [cls |-> "bytes", octets |-> q]

\* a variant that takes Data up to the used length
Data_M(self) == PyByteSeq(ArraySlice(self._Data, 0, self.DataSize))

\* PASSTHRU_MSG.Data
Data(self) == PyByteSeq(ArraySlice(self._Data, 0, self.ExtraDataIndex))

\* PASSTHRU_MSG.ExtraData
ExtraData(self) ==
    IF self.ExtraDataIndex = self.DataSize
    THEN PyByteSeq(<<>>)
    ELSE PyByteSeq(ArraySlice(self._Data, self.ExtraDataIndex,
                              self.DataSize))

\* a PASSTHRU_MSG object
MsgObject(m) == [cls |-> "PASSTHRU_MSG", msg |-> <<m>>]

ProtocolIDNames ==
    <<"J1850VPW", "J1850PWM", "ISO9141", "ISO14230", "CAN", "ISO15765",
      "SCI_A_ENGINE", "SCI_A_TRANS", "SCI_B_ENGINE", "SCI_B_TRANS",
      "RESERVED", "RESERVED_J2534_2", "MFG_SPECIFIC">>

ProtocolID ==
    [n \in {ProtocolIDNames[i] : i \in DOMAIN ProtocolIDNames} |->
        CASE n = "RESERVED_J2534_2" -> 32768
          [] n = "MFG_SPECIFIC" -> 65536
          [] OTHER -> CHOOSE i \in DOMAIN ProtocolIDNames :
                          ProtocolIDNames[i] = n]

\* the call of an IntEnum class on an integer: the member that has the
\* value, ValueError when there is none
IntEnum_call(class, members, v) ==
    IF \E n \in DOMAIN members : members[n] = v
    THEN Return([cls |-> class,
                 name |-> CHOOSE n \in DOMAIN members : members[n] = v,
                 value |-> I(v)])
    ELSE Raise([type |-> "ValueError"])

\* RxFlags (an IntFlag)
RxFlags ==
    [CAN_29BIT_ID |-> 256, ISO15765_ADDR_TYPE |-> 128,
     ISO15765_PADDING_ERROR |-> 16, TX_INDICATION |-> 8, RX_BREAK |-> 4,
     START_OF_MESSAGE |-> 2, TX_MSG_TYPE |-> 1]

\* RxStatus (an IntEnum whose values are taken from RxFlags)
RxStatus ==
    [Normal |-> 0, RxStart |-> RxFlags.START_OF_MESSAGE,
     RxBreak |-> RxFlags.RX_BREAK,
     RxPadError |-> RxFlags.ISO15765_PADDING_ERROR,
     TxDone |-> RxFlags.TX_INDICATION + RxFlags.TX_MSG_TYPE,
     Loopback |-> RxFlags.TX_MSG_TYPE]

\* TxFlags (an IntFlag)
TxFlags ==
    [SCI_TX_VOLTAGE |-> 8388608, SCI_MODE |-> 4194304,
     WAIT_P3_MIN_ONLY |-> 512, CAN_29BIT_ID |-> 256,
     ISO15765_ADDR_TYPE |-> 128, ISO15765_FRAME_PAD |-> 64,
     ISO15765_CAN_ID_29 |-> 320, ISO15765_CAN_ID_11 |-> 64,
     SWCAN_HV_TX |-> 1024, TX_NORMAL_TRANSMIT |-> 0]

\* the call of an IntFlag class on an integer 0 .. 2^32 - 1: every value is
\* accepted and kept
IntFlag_call(class, v) == Return([cls |-> class, value |-> I(v)])

\* PASSTHRU_MSG.ProtocolID
PASSTHRU_MSG_ProtocolID(self) ==
    IntEnum_call("ProtocolID", ProtocolID, self._ProtocolID)

\* PASSTHRU_MSG.RxStatus
PASSTHRU_MSG_RxStatus(self) ==
    IntEnum_call("RxStatus", RxStatus, self._RxStatus)

\* PASSTHRU_MSG.TxFlags
PASSTHRU_MSG_TxFlags(self) == IntFlag_call("TxFlags", self._TxFlags)

----------------------------------------------------------------------------
(* Values the caller and the driver are given to choose from *)

\* 32-bit patterns the DLL returns as status: every code up to MaxLowCode
\* and the edges of the reserved bands and of the signed range
Statuses ==
    {I(n) : n \in 0..MaxLowCode} \cup
    {<<0, 65535>>, <<1, 0>>, <<1, 1>>, <<32767, 65535>>, <<32768, 0>>,
     <<65535, 65535>>}

Handles == 0..MaxHandle

Timeouts == Opt({-1, 0, 100, 2147483647})

\* messages the caller transmits, and messages the driver delivers
TxMsgs == {PASSTHRU_MSG(5, 0, <<1, 2>>), PASSTHRU_MSG(6, 64, <<>>)}
RxMsgs ==
    {[_ProtocolID |-> 5, _RxStatus |-> 0, _TxFlags |-> 0, Timestamp |-> 7,
      DataSize |-> 2, ExtraDataIndex |-> 2, _Data |-> <<3, 4>>],
     [_ProtocolID |-> 5, _RxStatus |-> 0, _TxFlags |-> 0, Timestamp |-> 9,
      DataSize |-> 1, ExtraDataIndex |-> 1, _Data |-> <<5>>]}

\* the sequences over S of length at most n
RECURSIVE SeqsUpTo(_, _)
SeqsUpTo(S, n) ==
    IF n = 0 THEN {<<>>}
    ELSE SeqsUpTo(S, n - 1) \cup
         {Append(q, x) : q \in {r \in SeqsUpTo(S, n - 1) : Len(r) = n - 1},
                         x \in S}

\* the sequence F(q[1]), ..., F(q[Len(q)])
RECURSIVE SeqMap(_, _)
SeqMap(F(_), q) ==
    IF q = <<>> THEN <<>> ELSE <<F(Head(q))>> \o SeqMap(F, Tail(q))

\* q extended to length n with the element x
RECURSIVE PadTo(_, _, _)
PadTo(q, n, x) == IF Len(q) >= n THEN q ELSE PadTo(Append(q, x), n, x)


----------------------------------------------------------------------------
(* dll.py: the annotated DLL functions *)

\* J2534Dll.__init__: every function gets restype J2534Errors, and the
\* errcheck callback _error_check unless its entry names another one
_func_defs ==
    [f \in {"PassThruOpen", "PassThruClose", "PassThruConnect",
            "PassThruDisconnect", "PassThruReadMsgs", "PassThruWriteMsgs",
            "PassThruStartPeriodicMsg", "PassThruStopPeriodicMsg",
            "PassThruStartMsgFilter", "PassThruStopMsgFilter",
            "PassThruSetProgrammingVoltage", "PassThruReadVersion",
            "PassThruGetLastError", "PassThruIoctl"} |->
        [restype |-> "J2534Errors",
         errcheck |-> CASE f = "PassThruReadMsgs" -> "_read_check"
                        [] f = "PassThruGetLastError" -> "lambda"
                        [] OTHER -> "_error_check"]]

\* _error_check(result, func, arguments)
_error_check(result) ==
    IF result.value # J2534Errors["STATUS_NOERROR"]
    THEN Raise(J2534Error(result))
    ELSE Return(None)

\* _read_check(result, func, arguments)
_read_check(result) ==
    IF result.value = J2534Errors["ERR_BUFFER_EMPTY"]
    THEN Return(None)
    ELSE _error_check(result)

\* What a call self._dll.<func>(...) evaluates to when the DLL returns the
\* 32-bit pattern status: ctypes calls restype with the C int, then errcheck
\* with the converted result, and the call evaluates to what errcheck
\* returns.
ForeignCall(func, status) ==
    LET result == J2534Errors_call(CInt(status))
    IN  IF result.kind = "raise" THEN result
        ELSE CASE _func_defs[func].errcheck = "_error_check" ->
                      _error_check(result.result)
               [] _func_defs[func].errcheck = "_read_check" ->
                      _read_check(result.result)
               [] _func_defs[func].errcheck = "lambda" -> Return(None)

\* a native call: the function, its arguments (pointer arguments show what
\* they point to when the call returns) and the status it returned
NativeCall(func, a, status) == [func |-> func, args |-> a, status |-> status]

\* the operation ends as the foreign call did when that raised, and returns
\* value otherwise
Finish(ret, value) == IF ret.kind = "raise" THEN ret ELSE Return(value)

Idle == op = ""

NoArgs == [argc |-> 0]

\* a variant that makes the native call again after a failure
Invoke_M(name, a, cs, out) ==
    /\ op' = name
    /\ args' = a
    /\ calls' = IF out.kind = "raise" THEN cs \o cs ELSE cs
    /\ outcome' = out
    /\ log' = <<>>
    /\ released' = released

\* one call of an operation: what the caller gave, the native calls made and
\* how it ended
Invoke(name, a, cs, out) ==
    /\ op' = name
    /\ args' = a
    /\ calls' = cs
    /\ outcome' = out
    /\ log' = <<>>
    /\ released' = released

\* the same for an operation that logs warnings
InvokeLog(name, a, cs, out, warnings) ==
    /\ op' = name
    /\ args' = a
    /\ calls' = cs
    /\ outcome' = out
    /\ log' = warnings
    /\ released' = released

----------------------------------------------------------------------------
(* dll.py: the public operations *)

PassThruOpen ==
    /\ Idle
    /\ \E status \in Statuses, dev_id \in Handles :
        Invoke("PassThruOpen", NoArgs,
               <<NativeCall("PassThruOpen",
                            [pName |-> "NULL", pDeviceID |-> dev_id],
                            status)>>,
               Finish(ForeignCall("PassThruOpen", status),
                      c_ulong(I(dev_id))))

PassThruClose ==
    /\ Idle
    /\ \E device_id \in Handles, status \in Statuses :
        Invoke("PassThruClose", [device_id |-> device_id],
               <<NativeCall("PassThruClose", [DeviceID |-> device_id],
                            status)>>,
               Finish(ForeignCall("PassThruClose", status), None))

PassThruConnect ==
    /\ Idle
    /\ \E device_id \in Handles, protocol \in {5, 6}, flags \in {0, 256},
          baud \in {500000}, status \in Statuses, chan_id \in Handles :
        Invoke("PassThruConnect",
               [device_id |-> device_id, protocol |-> protocol,
                flags |-> flags, baud |-> baud],
               <<NativeCall("PassThruConnect",
                            [DeviceID |-> device_id, ProtocolID |-> protocol,
                             Flags |-> flags, BaudRate |-> baud,
                             pChannelID |-> chan_id],
                            status)>>,
               Finish(ForeignCall("PassThruConnect", status),
                      c_ulong(I(chan_id))))

PassThruDisconnect ==
    /\ Idle
    /\ \E channel_id \in Handles, status \in Statuses :
        Invoke("PassThruDisconnect", [channel_id |-> channel_id],
               <<NativeCall("PassThruDisconnect", [ChannelID |-> channel_id],
                            status)>>,
               Finish(ForeignCall("PassThruDisconnect", status), None))

\* a variant that returns the whole buffer
ListSlice_M(Msg, n) == Msg

\* list(Msg)[:n] for n >= 0: a slice stops at the end of the list
ListSlice(Msg, n) == SubSeq(Msg, 1, Min(n, Len(Msg)))

\* a variant that lets a negative timeout through
NormTimeout_M(timeout) == IF timeout = <<>> THEN 0 ELSE timeout[1]

\* the timeout handed to the DLL: None and negative values become 0
NormTimeout(timeout) ==
    IF timeout = <<>> \/ timeout[1] < 0 THEN 0 ELSE timeout[1]

\* The driver fills a prefix of the buffer (filled) and stores NumMsgs.  A
\* count of 0 makes Msg[0] raise IndexError before the call.  The foreign
\* call evaluates to what errcheck returned, which is compared with
\* ERR_BUFFER_EMPTY.
PassThruReadMsgs ==
    /\ Idle
    /\ \E channel_id \in Handles, num_msgs \in 0..MaxMsgs,
          timeout \in Timeouts, status \in Statuses,
          filled \in SeqsUpTo(RxMsgs, MaxMsgs), NumMsgs \in 0..(MaxMsgs + 1) :
        LET a == [channel_id |-> channel_id, num_msgs |-> num_msgs,
                  timeout |-> timeout]
            Msg == PadTo(filled, num_msgs, PASSTHRU_MSG_empty)
            ret == ForeignCall("PassThruReadMsgs", status)
        IN  /\ Len(filled) <= num_msgs
            /\ IF num_msgs = 0
               THEN Invoke("PassThruReadMsgs", a, <<>>,
                           Raise([type |-> "IndexError"]))
               ELSE Invoke("PassThruReadMsgs", a,
                           <<NativeCall("PassThruReadMsgs",
                                        [ChannelID |-> channel_id,
                                         pMsg |-> Msg,
                                         NumMsgs |-> num_msgs,
                                         pNumMsgs |-> NumMsgs,
                                         Timeout |-> NormTimeout(timeout)],
                                        status)>>,
                           IF ret.kind = "raise" THEN ret
                           ELSE IF ret.result = Member("ERR_BUFFER_EMPTY")
                           THEN Return(PyList(<<>>))
                           ELSE Return(PyList(ListSlice(Msg, NumMsgs))))

\* The driver stores the number written in NumMsgs.  An empty list makes
\* Msg[0] raise IndexError before the call.
PassThruWriteMsgs ==
    /\ Idle
    /\ \E channel_id \in Handles, msgs \in SeqsUpTo(TxMsgs, MaxMsgs),
          timeout \in Timeouts, status \in Statuses, NumMsgs \in 0..MaxMsgs :
        LET a == [channel_id |-> channel_id, msgs |-> msgs,
                  timeout |-> timeout]
            ret == ForeignCall("PassThruWriteMsgs", status)
        IN  /\ NumMsgs <= Len(msgs)
            /\ IF msgs = <<>>
               THEN Invoke("PassThruWriteMsgs", a, <<>>,
                           Raise([type |-> "IndexError"]))
               ELSE Invoke("PassThruWriteMsgs", a,
                           <<NativeCall("PassThruWriteMsgs",
                                        [ChannelID |-> channel_id,
                                         pMsg |-> msgs,
                                         NumMsgs |-> Len(msgs),
                                         pNumMsgs |-> NumMsgs,
                                         Timeout |-> NormTimeout(timeout)],
                                        status)>>,
                           Finish(ret, PyInt(I(NumMsgs))))

\* a variant that also takes an interval of 4 ms
valid_interval_M(interval) == interval \in 4..65535

\* interval in range(5, 65536)
valid_interval(interval) == interval \in 5..65535

Intervals == {-1, 0, 4, 5, 6, 1000, 65535, 65536, 100000}

PassThruStartPeriodicMsg ==
    /\ Idle
    /\ \E channel_id \in Handles, msg \in TxMsgs, interval \in Intervals,
          status \in Statuses, MsgID \in Handles :
        LET a == [channel_id |-> channel_id, msg |-> <<msg>>,
                  interval |-> interval]
        IN  IF ~valid_interval(interval)
            THEN Invoke("PassThruStartPeriodicMsg", a, <<>>,
                        Raise([type |-> "ValueError"]))
            ELSE Invoke("PassThruStartPeriodicMsg", a,
                        <<NativeCall("PassThruStartPeriodicMsg",
                                     [ChannelID |-> channel_id,
                                      pMsg |-> <<msg>>,
                                      pMsgID |-> MsgID,
                                      TimeInterval |-> interval],
                                     status)>>,
                        Finish(ForeignCall("PassThruStartPeriodicMsg",
                                           status), c_ulong(I(MsgID))))

PassThruStopPeriodicMsg ==
    /\ Idle
    /\ \E channel_id \in Handles, msg_id \in Handles, status \in Statuses :
        Invoke("PassThruStopPeriodicMsg",
               [channel_id |-> channel_id, msg_id |-> msg_id],
               <<NativeCall("PassThruStopPeriodicMsg",
                            [ChannelID |-> channel_id, MsgID |-> msg_id],
                            status)>>,
               Finish(ForeignCall("PassThruStopPeriodicMsg", status), None))

\* a variant that forwards the flow-control message for every filter type
StartMsgFilter_args_M(channel_id, filter_type, mask_msg, pattern_msg, flow_msg) ==
    IF mask_msg = <<>> \/ pattern_msg = <<>> \/ flow_msg = <<>>
    THEN Raise([type |-> "TypeError"])
    ELSE Return([ChannelID |-> channel_id, FilterType |-> filter_type,
                 pMaskMsg |-> mask_msg, pPatternMsg |-> pattern_msg,
                 pFlowControlMsg |-> flow_msg])

\* The argument list PassThruStartMsgFilter builds.  byref(None) raises
\* TypeError.
StartMsgFilter_args(channel_id, filter_type, mask_msg, pattern_msg, flow_msg) ==
    IF filter_type = FilterType.FLOW_CONTROL_FILTER
    THEN IF mask_msg = <<>> \/ pattern_msg = <<>> \/ flow_msg = <<>>
         THEN Raise([type |-> "TypeError"])
         ELSE Return([ChannelID |-> channel_id, FilterType |-> filter_type,
                      pMaskMsg |-> mask_msg, pPatternMsg |-> pattern_msg,
                      pFlowControlMsg |-> flow_msg])
    ELSE IF mask_msg = <<>> \/ pattern_msg = <<>>
         THEN Raise([type |-> "TypeError"])
         ELSE Return([ChannelID |-> channel_id, FilterType |-> filter_type,
                      pMaskMsg |-> mask_msg, pPatternMsg |-> pattern_msg,
                      pFlowControlMsg |-> <<>>])

MaskMsgs == {PASSTHRU_MSG(6, 64, <<255, 255>>)}
PatternMsgs == {PASSTHRU_MSG(6, 64, <<7, 232>>)}
FlowMsgs == {PASSTHRU_MSG(6, 64, <<7, 224>>)}

PassThruStartMsgFilter ==
    /\ Idle
    /\ \E channel_id \in Handles,
          filter_type \in {FilterType[n] : n \in DOMAIN FilterType},
          mask_msg \in Opt(MaskMsgs), pattern_msg \in Opt(PatternMsgs),
          flow_msg \in Opt(FlowMsgs),
          status \in Statuses, FilterID \in Handles :
        LET a == [channel_id |-> channel_id, filter_type |-> filter_type,
                  mask_msg |-> mask_msg, pattern_msg |-> pattern_msg,
                  flow_msg |-> flow_msg]
            nargs == StartMsgFilter_args(channel_id, filter_type, mask_msg,
                                         pattern_msg, flow_msg)
        IN  IF nargs.kind = "raise"
            THEN Invoke("PassThruStartMsgFilter", a, <<>>, nargs)
            ELSE Invoke("PassThruStartMsgFilter", a,
                        <<NativeCall("PassThruStartMsgFilter",
                                     [ChannelID |-> nargs.result.ChannelID,
                                      FilterType |-> nargs.result.FilterType,
                                      pMaskMsg |-> nargs.result.pMaskMsg,
                                      pPatternMsg |->
                                          nargs.result.pPatternMsg,
                                      pFlowControlMsg |->
                                          nargs.result.pFlowControlMsg,
                                      pFilterID |-> FilterID],
                                     status)>>,
                        Finish(ForeignCall("PassThruStartMsgFilter", status),
                               c_ulong(I(FilterID))))

PassThruStopMsgFilter ==
    /\ Idle
    /\ \E channel_id \in Handles, filter_id \in Handles, status \in Statuses :
        Invoke("PassThruStopMsgFilter",
               [channel_id |-> channel_id, filter_id |-> filter_id],
               <<NativeCall("PassThruStopMsgFilter",
                            [ChannelID |-> channel_id, FilterID |-> filter_id],
                            status)>>,
               Finish(ForeignCall("PassThruStopMsgFilter", status), None))

\* a variant whose range ends one millivolt early
valid_voltage_M(voltage) ==
    \/ voltage = ProgrammingVoltage.SHORT_TO_GROUND
    \/ voltage = ProgrammingVoltage.VOLTAGE_OFF
    \/ /\ voltage[1] = 0
       /\ voltage[2] >= ProgrammingVoltage.MIN_VOLTAGE[2]
       /\ voltage[2] < ProgrammingVoltage.MAX_VOLTAGE[2]

\* voltage in [SHORT_TO_GROUND, VOLTAGE_OFF]
\*            + list(range(MIN_VOLTAGE, MAX_VOLTAGE + 1))
valid_voltage(voltage) ==
    \/ voltage = ProgrammingVoltage.SHORT_TO_GROUND
    \/ voltage = ProgrammingVoltage.VOLTAGE_OFF
    \/ /\ voltage[1] = 0
       /\ voltage[2] >= ProgrammingVoltage.MIN_VOLTAGE[2]
       /\ voltage[2] < ProgrammingVoltage.MAX_VOLTAGE[2] + 1

\* -1, 0, 4999 .. 20001, 70536 (5000 + 2^16), 0xFFFFFFFD .. 0xFFFFFFFF
\* and 2^32 + 5000
Voltages ==
    {<<-1, 65535>>, <<0, 0>>, <<0, 4999>>, <<0, 5000>>, <<0, 5001>>,
     <<0, 12000>>, <<0, 20000>>, <<0, 20001>>, <<1, 5000>>,
     <<65535, 65533>>, <<65535, 65534>>, <<65535, 65535>>, <<65536, 5000>>}

\* the c_ulong argument receives the 32 low bits of the voltage
PassThruSetProgrammingVoltage ==
    /\ Idle
    /\ \E device_id \in Handles, pin_number \in ProgrammingPin,
          voltage \in Voltages, status \in Statuses :
        LET a == [device_id |-> device_id, pin_number |-> pin_number,
                  voltage |-> voltage]
        IN  IF ~valid_voltage(voltage)
            THEN Invoke("PassThruSetProgrammingVoltage", a, <<>>,
                        Raise([type |-> "ValueError"]))
            ELSE Invoke("PassThruSetProgrammingVoltage", a,
                        <<NativeCall("PassThruSetProgrammingVoltage",
                                     [DeviceID |-> device_id,
                                      PinNumber |-> pin_number,
                                      Voltage |-> c_ulong(voltage).value],
                                     status)>>,
                        Finish(ForeignCall("PassThruSetProgrammingVoltage",
                                           status), None))

\* texts the driver writes into an 80-byte buffer
Texts == {"", "04.04", "USB device not found"}

PassThruReadVersion ==
    /\ Idle
    /\ \E device_id \in Handles, status \in Statuses,
          fw_str \in Texts, dll_str \in Texts, api_str \in Texts :
        Invoke("PassThruReadVersion", [device_id |-> device_id],
               <<NativeCall("PassThruReadVersion",
                            [DeviceID |-> device_id,
                             pFirmwareVersion |-> fw_str,
                             pDllVersion |-> dll_str,
                             pApiVersion |-> api_str],
                            status)>>,
               Finish(ForeignCall("PassThruReadVersion", status),
                      [cls |-> "tuple",
                       buffers |-> <<fw_str, dll_str, api_str>>]))

PassThruGetLastError ==
    /\ Idle
    /\ \E status \in Statuses, desc \in Texts :
        Invoke("PassThruGetLastError", NoArgs,
               <<NativeCall("PassThruGetLastError",
                            [pErrorDescription |-> desc], status)>>,
               Finish(ForeignCall("PassThruGetLastError", status),
                      PyBytes(desc)))

\* the sequences that list every element of the set S once, in any order
\* (the order in which Python iterates over a set)
Orderings(S) ==
    {q \in SeqsUpTo(S, Cardinality(S)) :
        \A x \in S : \E i \in DOMAIN q : q[i] = x}

Range(q) == {q[i] : i \in DOMAIN q}

\* a variant that forgets P2_MAX
_unused_params_M == {"P1_MIN", "P2_MIN", "P3_MAX", "P4_MAX"}

_unused_params == {"P1_MIN", "P2_MIN", "P2_MAX", "P3_MAX", "P4_MAX"}

\* parameters the caller asks for or sets, and values found in a list
ParamPool == {"DATA_RATE", "LOOPBACK", "P1_MIN", "P2_MAX"}
ParamValues == {0, 500000}

\* The driver stores a value in every entry of the list (values); written is
\* the list when the call returns.
PassThruIoctlGetConfig ==
    /\ Idle
    /\ \E channel_id \in Handles, params \in SeqsUpTo(ParamPool, MaxParams),
          status \in Statuses :
       \E warned \in Orderings(Range(params) \cap _unused_params),
          _params \in Orderings(Range(params) \ _unused_params) :
       \E values \in {v \in SeqsUpTo(ParamValues, MaxParams) :
                          Len(v) = Len(_params)} :
        LET ioctl_params ==
                SeqMap(LAMBDA par : SCONFIG(IoctlParameter[par], 0), _params)
            Input == SCONFIG_LIST(ioctl_params)
            Config == SeqMap(LAMBDA i : SCONFIG(IoctlParameter[_params[i]],
                                                values[i]),
                             SubSeq(<<1, 2, 3, 4, 5, 6, 7, 8>>, 1,
                                    Len(_params)))
        IN  InvokeLog("PassThruIoctlGetConfig",
                      [channel_id |-> channel_id,
                       params |-> [cls |-> "list", names |-> params]],
                      <<NativeCall("PassThruIoctl",
                                   [ChannelID |-> channel_id,
                                    IoctlID |-> IoctlID.GET_CONFIG,
                                    pInput |-> <<Input>>, pOutput |-> <<>>,
                                    written |-> Config],
                                   status)>>,
                      Finish(ForeignCall("PassThruIoctl", status),
                             PyDict([par \in Range(_params) |->
                                        values[CHOOSE i \in DOMAIN _params :
                                                   _params[i] = par]])),
                      SeqMap(LAMBDA p : p \o " not supported by interface, ignoring",
                             warned))

\* params is a dict: a sequence of items with distinct keys, in insertion
\* order
Dicts(K, V, n) ==
    {d \in SeqsUpTo([par : K, val : V], n) :
        \A i, j \in DOMAIN d : d[i].par = d[j].par => i = j}

PassThruIoctlSetConfig ==
    /\ Idle
    /\ \E channel_id \in Handles,
          params \in Dicts(ParamPool, ParamValues, MaxParams),
          status \in Statuses :
        LET ioctl_params ==
                SeqMap(LAMBDA item : SCONFIG(IoctlParameter[item.par],
                                             item.val), params)
            Input == SCONFIG_LIST(ioctl_params)
        IN  Invoke("PassThruIoctlSetConfig",
                   [channel_id |-> channel_id,
                    params |-> [cls |-> "dict", pairs |-> params]],
                   <<NativeCall("PassThruIoctl",
                                [ChannelID |-> channel_id,
                                 IoctlID |-> IoctlID.SET_CONFIG,
                                 pInput |-> <<Input>>, pOutput |-> <<>>],
                                status)>>,
                   Finish(ForeignCall("PassThruIoctl", status), None))

\* millivolt readings the driver reports
Millivolts == {0, 12000}

\* the two ioctls that read a voltage into a c_ulong
IoctlReadVoltage(name, id) ==
    \E device_id \in Handles, status \in Statuses, Output \in Millivolts :
        Invoke(name, [device_id |-> device_id],
               <<NativeCall("PassThruIoctl",
                            [ChannelID |-> device_id, IoctlID |-> id,
                             pInput |-> <<>>, pOutput |-> <<c_ulong(I(0))>>,
                             reading |-> Output],
                            status)>>,
               Finish(ForeignCall("PassThruIoctl", status),
                      PyInt(I(Output))))

PassThruIoctlReadVbatt ==
    /\ Idle
    /\ IoctlReadVoltage("PassThruIoctlReadVbatt", IoctlID.READ_VBATT)

PassThruIoctlReadProgVoltage ==
    /\ Idle
    /\ IoctlReadVoltage("PassThruIoctlReadProgVoltage",
                        IoctlID.READ_PROG_VOLTAGE)

\* addresses the caller passes; bytes([addr]) raises ValueError outside
\* 0 .. 255
Addresses == {51, 256}
KeyBytes == {<<255, 255>>, <<8, 8>>}

\* The driver stores the key bytes in the output array (response).  The
\* operation has no return statement.
PassThruIoctlFiveBaudInit ==
    /\ Idle
    /\ \E channel_id \in Handles, addr \in Addresses, status \in Statuses,
          response \in KeyBytes :
        LET a == [channel_id |-> channel_id, addr |-> addr]
            Input == SBYTE_ARRAY(<<addr>>)
            Output == SBYTE_ARRAY(<<255, 255>>)
        IN  IF addr \notin 0..255
            THEN Invoke("PassThruIoctlFiveBaudInit", a, <<>>,
                        Raise([type |-> "ValueError"]))
            ELSE Invoke("PassThruIoctlFiveBaudInit", a,
                        <<NativeCall("PassThruIoctl",
                                     [ChannelID |-> channel_id,
                                      IoctlID |-> IoctlID.FIVE_BAUD_INIT,
                                      pInput |-> <<Input>>,
                                      pOutput |-> <<Output>>,
                                      response |-> response],
                                     status)>>,
                        Finish(ForeignCall("PassThruIoctl", status), None))

\* Input is a fresh PASSTHRU_MSG() whatever msg is; the driver stores the
\* response in Output.
PassThruIoctlFastInit ==
    /\ Idle
    /\ \E channel_id \in Handles, msg \in Opt(TxMsgs), status \in Statuses,
          Output \in RxMsgs \cup {PASSTHRU_MSG_empty} :
        LET Input == PASSTHRU_MSG_empty
        IN  Invoke("PassThruIoctlFastInit",
                   [channel_id |-> channel_id, msg |-> msg],
                   <<NativeCall("PassThruIoctl",
                                [ChannelID |-> channel_id,
                                 IoctlID |-> IoctlID.FAST_INIT,
                                 pInput |-> <<Input>>,
                                 pOutput |-> <<Output>>],
                                status)>>,
                   Finish(ForeignCall("PassThruIoctl", status),
                          [cls |-> "PASSTHRU_MSG", msg |-> <<Output>>]))

\* the five ioctls without input and output
IoctlClear(name, id) ==
    \E channel_id \in Handles, status \in Statuses :
        Invoke(name, [channel_id |-> channel_id],
               <<NativeCall("PassThruIoctl",
                            [ChannelID |-> channel_id, IoctlID |-> id,
                             pInput |-> <<>>, pOutput |-> <<>>],
                            status)>>,
               Finish(ForeignCall("PassThruIoctl", status), None))

PassThruIoctlClearTxBuffer ==
    /\ Idle
    /\ IoctlClear("PassThruIoctlClearTxBuffer", IoctlID.CLEAR_TX_BUFFER)

PassThruIoctlClearRxBuffer ==
    /\ Idle
    /\ IoctlClear("PassThruIoctlClearRxBuffer", IoctlID.CLEAR_RX_BUFFER)

PassThruIoctlClearPeriodicMsgs ==
    /\ Idle
    /\ IoctlClear("PassThruIoctlClearPeriodicMsgs",
                  IoctlID.CLEAR_PERIODIC_MSGS)

PassThruIoctlClearMsgFilters ==
    /\ Idle
    /\ IoctlClear("PassThruIoctlClearMsgFilters", IoctlID.CLEAR_MSG_FILTERS)

PassThruIoctlClearFunctMsgLookupTable ==
    /\ Idle
    /\ IoctlClear("PassThruIoctlClearFunctMsgLookupTable",
                  IoctlID.CLEAR_FUNCT_MSG_LOOKUP_TABLE)

\* address lists for the functional message look-up table
AddressLists == {<<>>, <<16>>, <<16, 32>>}

\* the two ioctls whose input is a byte array of addresses
IoctlFunctMsgLookupTable(name, id) ==
    \E channel_id \in Handles, addrs \in AddressLists, status \in Statuses :
        Invoke(name, [channel_id |-> channel_id, addrs |-> addrs],
               <<NativeCall("PassThruIoctl",
                            [ChannelID |-> channel_id, IoctlID |-> id,
                             pInput |-> <<SBYTE_ARRAY(addrs)>>,
                             pOutput |-> <<>>],
                            status)>>,
               Finish(ForeignCall("PassThruIoctl", status), None))

PassThruIoctlAddToFunctMsgLookupTable ==
    /\ Idle
    /\ IoctlFunctMsgLookupTable("PassThruIoctlAddToFunctMsgLookupTable",
                                IoctlID.ADD_TO_FUNCT_MSG_LOOKUP_TABLE)

PassThruIoctlDeleteFromFunctMsgLookupTable ==
    /\ Idle
    /\ IoctlFunctMsgLookupTable("PassThruIoctlDeleteFromFunctMsgLookupTable",
                                IoctlID.DELETE_FROM_FUNCT_MSG_LOOKUP_TABLE)

\* a direct call of the module function on a code 0 .. 2^32 - 1
GetErrorText ==
    /\ Idle
    /\ \E err \in Statuses :
        Invoke("_get_error_text", [err |-> err], <<>>,
               _get_error_text(PyInt(err)))

----------------------------------------------------------------------------
(* define.py: messages built and read by the caller *)

\* protocol identifiers: named ones, and values inside and at the edges of
\* the reserved and manufacturer-specific bands
ProtocolValues == {0, 5, 10, 11, 12, 32767, 32768, 32769, 65535, 65536, 65537}

\* flag words (below 2^31): no flag, single flags, combinations of named
\* flags, and words with bits that have no name
FlagValues == {0, 1, 2, 8, 9, 16, 256, 257, 320, 1073741824, 1073742080}

\* payloads: empty, short, filling the array, and one byte too long
Payloads ==
    {<<>>, <<1, 2, 3>>, [i \in 1.._Data_length |-> 0],
     [i \in 1..(_Data_length + 1) |-> 0]}

\* PASSTHRU_MSG(*args, **kwargs) with at most the positional argument
\* protocol and the keywords tx_flags and data
PASSTHRU_MSG_init ==
    /\ Idle
    /\ \E protocol \in Opt(ProtocolValues), tx_flags \in Opt(FlagValues),
          data \in Opt(Payloads) :
        LET a == [protocol |-> protocol, tx_flags |-> tx_flags,
                  data |-> data]
            flags == IF tx_flags = <<>> THEN TxFlags.TX_NORMAL_TRANSMIT
                     ELSE tx_flags[1]
            bytes == IF data = <<>> THEN <<>> ELSE data[1]
        IN  IF protocol = <<>> /\ tx_flags = <<>> /\ data = <<>>
            THEN Invoke("PASSTHRU_MSG", a, <<>>,
                        Return(MsgObject(PASSTHRU_MSG_empty)))
            ELSE IF protocol = <<>> \/ Len(bytes) > _Data_length
            THEN Invoke("PASSTHRU_MSG", a, <<>>,
                        Raise([type |-> "IndexError"]))
            ELSE Invoke("PASSTHRU_MSG", a, <<>>,
                        Return(MsgObject(PASSTHRU_MSG(protocol[1], flags,
                                                      bytes))))

\* what the driver stores in the used length and in the extra-data index
Sizes == {0, 1, 3, 5, _Data_length, _Data_length + 1}

\* messages as the driver fills them
FilledMsgs ==
    {[_ProtocolID |-> 5, _RxStatus |-> 0, _TxFlags |-> 0, Timestamp |-> 7,
      DataSize |-> n, ExtraDataIndex |-> x, _Data |-> d] :
        n \in Sizes, x \in Sizes, d \in {<<>>, <<10, 11, 12, 13, 14>>}}

\* the caller reads msg.Data
Get_Data ==
    /\ Idle
    /\ \E msg \in FilledMsgs :
        Invoke("PASSTHRU_MSG.Data", [msg |-> <<msg>>], <<>>,
               Return(Data(msg)))

\* the caller reads msg.ExtraData
Get_ExtraData ==
    /\ Idle
    /\ \E msg \in FilledMsgs :
        Invoke("PASSTHRU_MSG.ExtraData", [msg |-> <<msg>>], <<>>,
               Return(ExtraData(msg)))

\* messages that carry a protocol identifier and flag words
TaggedMsgs ==
    {[_ProtocolID |-> p, _RxStatus |-> r, _TxFlags |-> t, Timestamp |-> 0,
      DataSize |-> 0, ExtraDataIndex |-> 0, _Data |-> <<>>] :
        p \in {5, 12}, r \in FlagValues, t \in FlagValues}
    \cup {PASSTHRU_MSG(p, 0, <<>>) : p \in ProtocolValues}

\* the caller reads msg.ProtocolID
Get_ProtocolID ==
    /\ Idle
    /\ \E msg \in TaggedMsgs :
        Invoke("PASSTHRU_MSG.ProtocolID", [msg |-> <<msg>>], <<>>,
               PASSTHRU_MSG_ProtocolID(msg))

\* the caller reads msg.RxStatus
Get_RxStatus ==
    /\ Idle
    /\ \E msg \in TaggedMsgs :
        Invoke("PASSTHRU_MSG.RxStatus", [msg |-> <<msg>>], <<>>,
               PASSTHRU_MSG_RxStatus(msg))

\* the caller reads msg.TxFlags
Get_TxFlags ==
    /\ Idle
    /\ \E msg \in TaggedMsgs :
        Invoke("PASSTHRU_MSG.TxFlags", [msg |-> <<msg>>], <<>>,
               PASSTHRU_MSG_TxFlags(msg))

----------------------------------------------------------------------------

Init ==
    /\ op = ""
    /\ args = NoArgs
    /\ calls = <<>>
    /\ outcome = Return(None)
    /\ log = <<>>
    /\ released = {}

\* The caller takes the outcome; the instance keeps nothing from the call
\* (its only attribute is the loaded DLL).
ReturnToCaller ==
    /\ op # ""
    /\ op' = ""
    /\ args' = NoArgs
    /\ calls' = <<>>
    /\ outcome' = Return(None)
    /\ log' = <<>>
    /\ released' = released

Next ==
    \/ ReturnToCaller
    \/ PassThruOpen
    \/ PassThruClose
    \/ PassThruConnect
    \/ PassThruDisconnect
    \/ PassThruReadMsgs
    \/ PassThruWriteMsgs
    \/ PassThruStartPeriodicMsg
    \/ PassThruStopPeriodicMsg
    \/ PassThruStartMsgFilter
    \/ PassThruStopMsgFilter
    \/ PassThruSetProgrammingVoltage
    \/ PassThruReadVersion
    \/ PassThruGetLastError
    \/ PassThruIoctlGetConfig
    \/ PassThruIoctlSetConfig
    \/ PassThruIoctlReadVbatt
    \/ PassThruIoctlReadProgVoltage
    \/ PassThruIoctlFiveBaudInit
    \/ PassThruIoctlFastInit
    \/ PassThruIoctlClearTxBuffer
    \/ PassThruIoctlClearRxBuffer
    \/ PassThruIoctlClearPeriodicMsgs
    \/ PassThruIoctlClearMsgFilters
    \/ PassThruIoctlClearFunctMsgLookupTable
    \/ PassThruIoctlAddToFunctMsgLookupTable
    \/ PassThruIoctlDeleteFromFunctMsgLookupTable
    \/ GetErrorText
    \/ PASSTHRU_MSG_init
    \/ Get_Data
    \/ Get_ExtraData
    \/ Get_ProtocolID
    \/ Get_RxStatus
    \/ Get_TxFlags

Spec == Init /\ [][Next]_vars

----------------------------------------------------------------------------
(* Handle lifecycle: the same operations, with the driver's released        *)
(* handles followed from call to call                                       *)

\* the handle the driver released in the call that just ended, if any
ReleasedByCall ==
    IF calls = <<>> \/ calls[1].status # <<0, 0>> THEN {}
    ELSE CASE op = "PassThruClose" ->
                  {[kind |-> "device", handle |-> calls[1].args.DeviceID]}
           [] op = "PassThruDisconnect" ->
                  {[kind |-> "channel", handle |-> calls[1].args.ChannelID]}
           [] op = "PassThruStopMsgFilter" ->
                  {[kind |-> "filter", handle |-> calls[1].args.FilterID]}
           [] op = "PassThruStopPeriodicMsg" ->
                  {[kind |-> "periodic", handle |-> calls[1].args.MsgID]}
           [] OTHER -> {}

\* The caller takes the outcome, as in ReturnToCaller; the driver has
\* released the handle of a successful close, disconnect or stop.
ReturnAfterRelease ==
    /\ op # ""
    /\ op' = ""
    /\ args' = NoArgs
    /\ calls' = <<>>
    /\ outcome' = Return(None)
    /\ log' = <<>>
    /\ released' = IF Cardinality(released \cup ReleasedByCall) <= MaxReleased
                   THEN released \cup ReleasedByCall
                   ELSE released

NextLifecycle ==
    \/ ReturnAfterRelease
    \/ PassThruClose
    \/ PassThruDisconnect
    \/ PassThruStopMsgFilter
    \/ PassThruStopPeriodicMsg
    \/ PassThruIoctlClearTxBuffer
    \/ PassThruIoctlClearRxBuffer
    \/ PassThruIoctlReadVbatt

SpecLifecycle == Init /\ [][NextLifecycle]_vars

----------------------------------------------------------------------------
(* Properties *)

NonBlocking == args.timeout = <<>> \/ args.timeout[1] < 0

RaisedJ2534Error(status) ==
    /\ outcome.kind = "raise"
    /\ outcome.exc.type = "J2534Error"
    /\ outcome.exc.error.value = status

\* C1: in every operation other than PassThruGetLastError and
\* PassThruReadMsgs, a non-zero status code returned by the native entry
\* point makes the operation raise the J2534Error of that code.
C1_NonZeroStatusRaisesJ2534Error ==
    (/\ op \notin {"", "_get_error_text", "PassThruGetLastError",
                   "PassThruReadMsgs"}
     /\ calls # <<>>
     /\ calls[1].status # <<0, 0>>)
        => RaisedJ2534Error(calls[1].status)

\* C2: classification is total over the unsigned 32-bit codes: a direct
\* classification returns a description, and a call that ends in an
\* exception after the native function returned ends in a J2534Error that
\* carries a kind, a description and the string "[KIND_NAME] description";
\* no status code makes it fail in another way.
C2_ClassificationTotal ==
    /\ op = "_get_error_text" => outcome.kind = "return"
    /\ (calls # <<>> /\ outcome.kind = "raise")
          => /\ outcome.exc.type = "J2534Error"
             /\ outcome.exc.str =
                   "[" \o outcome.exc.error.name \o "] "
                       \o outcome.exc.message

\* the description the three bands give the code <<hi, lo>>
BandText(code) ==
    IF code[1] = 0 /\ code[2] <= 26
    THEN _error_msg_map[J2534ErrorsNames[code[2] + 1]]
    ELSE IF code[1] = 0 THEN "Reserved for SAE J2534-1"
    ELSE "Reserved for SAE J2534-2"

\* C3: the description of a code is that of its own named kind for 0x00 ..
\* 0x1A, "Reserved for SAE J2534-1" for 0x1B .. 0xFFFF and "Reserved for SAE
\* J2534-2" from 0x10000 on.
C3_DescriptionBands ==
    op = "_get_error_text" =>
        /\ outcome = Return(PyStr(BandText(args.err)))
        /\ args.err = <<0, 0>>
              => outcome.result.text = "Function call successful"
        /\ args.err = <<0, 16>> => outcome.result.text =
              "Protocol message buffer empty, no messages available to read"
        /\ args.err = <<0, 26>>
              => outcome.result.text = "Unable to communicate with device"

C3_Witness ==
    /\ op = "_get_error_text"
    /\ args.err = <<0, 65535>>
    /\ outcome = Return(PyStr("Reserved for SAE J2534-1"))

\* C4: a read without timeout for which the native call reports
\* ERR_BUFFER_EMPTY returns the empty list, whatever count was requested
\* and whatever the native call left in the returned count.
C4_EmptyBufferReturnsEmptyList ==
    (/\ op = "PassThruReadMsgs"
     /\ calls # <<>>
     /\ NonBlocking
     /\ calls[1].status = <<0, 16>>)
        => outcome = Return(PyList(<<>>))

\* C5: in a read, the only status that is not raised is ERR_BUFFER_EMPTY of
\* a read without timeout: every other non-zero status, and every non-zero
\* status of a read with a timeout >= 0, raises the J2534Error of that code.
C5_OnlyNonBlockingEmptySuppressed ==
    (/\ op = "PassThruReadMsgs"
     /\ calls # <<>>
     /\ calls[1].status # <<0, 0>>
     /\ ~(NonBlocking /\ calls[1].status = <<0, 16>>))
        => RaisedJ2534Error(calls[1].status)

\* C6: PassThruWriteMsgs calls the native WriteMsgs with the caller's
\* messages in the caller's order and their number as the count, returns
\* the count the native call stored when the status is success, and raises
\* the ERR_TIMEOUT failure when the native call reports a timeout.
C6_WriteMsgsForwardsAndCounts ==
    op = "PassThruWriteMsgs" =>
        /\ Len(calls) = 1
        /\ calls[1].func = "PassThruWriteMsgs"
        /\ calls[1].args.pMsg = args.msgs
        /\ calls[1].args.NumMsgs = Len(args.msgs)
        /\ calls[1].status = <<0, 0>>
              => outcome = Return(PyInt(<<0, calls[1].args.pNumMsgs>>))
        /\ calls[1].status = <<0, 9>>
              => /\ RaisedJ2534Error(<<0, 9>>)
                 /\ outcome.exc.error.name = "ERR_TIMEOUT"

\* C7: PassThruStartPeriodicMsg makes exactly the native StartPeriodicMsg
\* call, with the caller's interval, when the interval is in 5 .. 65535, and
\* raises ValueError without any native call for every other interval.
C7_IntervalPrecondition ==
    op = "PassThruStartPeriodicMsg" =>
        IF 5 <= args.interval /\ args.interval <= 65535
        THEN /\ Len(calls) = 1
             /\ calls[1].func = "PassThruStartPeriodicMsg"
             /\ calls[1].args.TimeInterval = args.interval
        ELSE /\ calls = <<>>
             /\ outcome = Raise([type |-> "ValueError"])

C7_Witness ==
    /\ op = "PassThruStartPeriodicMsg"
    /\ args.interval = 65535
    /\ Len(calls) = 1
    /\ calls[1].args.TimeInterval = 65535
    /\ outcome.kind = "return"

\* C8: PassThruSetProgrammingVoltage forwards the voltage unchanged to the
\* native SetProgrammingVoltage call when it is SHORT_TO_GROUND
\* (0xFFFFFFFE), VOLTAGE_OFF (0xFFFFFFFF) or in 5000 .. 20000, and raises
\* ValueError without any native call for every other voltage.
C8_VoltagePrecondition ==
    op = "PassThruSetProgrammingVoltage" =>
        IF \/ args.voltage \in {<<65535, 65534>>, <<65535, 65535>>}
           \/ /\ args.voltage[1] = 0
              /\ 5000 <= args.voltage[2]
              /\ args.voltage[2] <= 20000
        THEN /\ Len(calls) = 1
             /\ calls[1].func = "PassThruSetProgrammingVoltage"
             /\ calls[1].args.Voltage = args.voltage
        ELSE /\ calls = <<>>
             /\ outcome = Raise([type |-> "ValueError"])

C8_Witness ==
    /\ op = "PassThruSetProgrammingVoltage"
    /\ args.voltage = <<65535, 65535>>
    /\ Len(calls) = 1
    /\ calls[1].args.Voltage = <<65535, 65535>>
    /\ outcome.kind = "return"

\* C9: the flow-control argument of the native StartMsgFilter call is the
\* caller's message when the filter type is FLOW_CONTROL_FILTER and null for
\* every other type, also when the caller supplied a message; a
\* FLOW_CONTROL_FILTER without message raises before any native call, and no
\* message is ever substituted.
C9_FlowControlOnlyForFlowFilter ==
    op = "PassThruStartMsgFilter" =>
        /\ \A i \in DOMAIN calls :
              calls[i].args.pFlowControlMsg =
                  IF args.filter_type = 3 THEN args.flow_msg ELSE <<>>
        /\ (args.filter_type = 3 /\ args.flow_msg = <<>>)
              => (calls = <<>> /\ outcome.kind = "raise")
        /\ (args.mask_msg # <<>> /\ args.pattern_msg # <<>>
               /\ (args.filter_type = 3 => args.flow_msg # <<>>))
              => Len(calls) = 1

C9_Witness ==
    /\ op = "PassThruStartMsgFilter"
    /\ args.filter_type = 1
    /\ args.flow_msg # <<>>
    /\ Len(calls) = 1
    /\ calls[1].args.pFlowControlMsg = <<>>

\* C10: PassThruGetLastError returns the text of the 80-byte buffer for
\* every status code the native GetLastError call returns.
C10_GetLastErrorAlwaysReturnsText ==
    op = "PassThruGetLastError" =>
        /\ Len(calls) = 1
        /\ outcome = Return(PyBytes(calls[1].args.pErrorDescription))

\* the parameters marked "not to be used by application"
DriverInternal == {"P1_MIN", "P2_MIN", "P2_MAX", "P3_MAX", "P4_MAX"}

\* the parameter identifiers in a configuration list
ConfigIds(list) == {list.Config[i]._Parameter : i \in DOMAIN list.Config}

\* C11: PassThruIoctlGetConfig makes one GET_CONFIG ioctl whose list holds
\* exactly the requested parameters that are not driver-internal, each once;
\* it logs exactly one warning per distinct driver-internal parameter
\* requested; on success it returns a mapping whose keys are the parameters
\* sent and whose values are those the native call left in the list.
C11_GetConfigFiltersAndMaps ==
    op = "PassThruIoctlGetConfig" =>
        LET requested == Range(args.params.names)
            kept == requested \ DriverInternal
            dropped == requested \cap DriverInternal
        IN  /\ Len(calls) = 1
            /\ calls[1].args.IoctlID = 1
            /\ ConfigIds(calls[1].args.pInput[1]) =
                  {IoctlParameter[p] : p \in kept}
            /\ Len(calls[1].args.pInput[1].Config) = Cardinality(kept)
            /\ calls[1].args.pInput[1].NumOfParams = Cardinality(kept)
            /\ Len(log) = Cardinality(dropped)
            /\ \A p \in dropped : \E i \in DOMAIN log :
                  log[i] = p \o " not supported by interface, ignoring"
            /\ calls[1].status = <<0, 0>> =>
                  /\ outcome.kind = "return"
                  /\ DOMAIN outcome.result.map = kept
                  /\ \A p \in kept : \E i \in DOMAIN calls[1].args.written :
                        /\ calls[1].args.written[i]._Parameter
                              = IoctlParameter[p]
                        /\ calls[1].args.written[i].Value
                              = outcome.result.map[p]

C11_Witness ==
    /\ op = "PassThruIoctlGetConfig"
    /\ args.params.names = <<"P2_MAX", "DATA_RATE">>
    /\ calls[1].status = <<0, 0>>
    /\ log = <<"P2_MAX not supported by interface, ignoring">>
    /\ outcome.kind = "return"
    /\ DOMAIN outcome.result.map = {"DATA_RATE"}
    /\ outcome.result.map["DATA_RATE"] = 500000

\* the parameters the caller asked for or gave values to
RequestedParams ==
    IF op = "PassThruIoctlGetConfig"
    THEN Range(args.params.names)
    ELSE {args.params.pairs[i].par : i \in DOMAIN args.params.pairs}

\* C12: the configuration list PassThruIoctlGetConfig or
\* PassThruIoctlSetConfig passes to the native ioctl never contains a
\* driver-internal parameter: each such parameter requested is dropped with
\* one warning, and the native call is still made.
C12_NoDriverInternalParameterForwarded ==
    op \in {"PassThruIoctlGetConfig", "PassThruIoctlSetConfig"} =>
        /\ Len(calls) = 1
        /\ ConfigIds(calls[1].args.pInput[1])
              \cap {IoctlParameter[p] : p \in DriverInternal} = {}
        /\ Len(log) = Cardinality(RequestedParams \cap DriverInternal)

\* C13: a PASSTHRU_MSG built with a protocol and a payload P of at most
\* 4128 bytes has DataSize = ExtraDataIndex = len(P) (so ExtraDataIndex <=
\* DataSize <= 4128), Data = P and ExtraData empty; a PASSTHRU_MSG built
\* without arguments is all zero, with Data and ExtraData empty.
C13_ConstructedMessageSizes ==
    op = "PASSTHRU_MSG" =>
        LET P == IF args.data = <<>> THEN <<>> ELSE args.data[1]
        IN  /\ (args.protocol = <<>> /\ args.tx_flags = <<>>
                  /\ args.data = <<>>)
                  => /\ outcome.kind = "return"
                     /\ outcome.result.msg[1] =
                           [_ProtocolID |-> 0, _RxStatus |-> 0,
                            _TxFlags |-> 0, Timestamp |-> 0, DataSize |-> 0,
                            ExtraDataIndex |-> 0, _Data |-> <<>>]
                     /\ Data(outcome.result.msg[1]).octets = <<>>
                     /\ ExtraData(outcome.result.msg[1]).octets = <<>>
            /\ (args.protocol # <<>> /\ Len(P) <= 4128)
                  => /\ outcome.kind = "return"
                     /\ outcome.result.msg[1].DataSize = Len(P)
                     /\ outcome.result.msg[1].ExtraDataIndex = Len(P)
                     /\ outcome.result.msg[1].ExtraDataIndex
                           <= outcome.result.msg[1].DataSize
                     /\ outcome.result.msg[1].DataSize <= 4128
                     /\ Data(outcome.result.msg[1]).octets = P
                     /\ ExtraData(outcome.result.msg[1]).octets = <<>>

C13_Witness ==
    /\ op = "PASSTHRU_MSG"
    /\ args.protocol = <<5>>
    /\ args.data = <<(<<1, 2, 3>>)>>
    /\ outcome.kind = "return"
    /\ outcome.result.msg[1].DataSize = 3
    /\ outcome.result.msg[1].ExtraDataIndex = 3
    /\ Data(outcome.result.msg[1]).octets = <<1, 2, 3>>

\* C14: for a message with ExtraDataIndex <= DataSize <= 4128, Data is the
\* bytes at positions 0 .. ExtraDataIndex - 1 of the payload array and
\* ExtraData the bytes at positions ExtraDataIndex .. DataSize - 1, so that
\* Data followed by ExtraData is the first DataSize bytes of the array.
C14_DataAndExtraDataViews ==
    (/\ op \in {"PASSTHRU_MSG.Data", "PASSTHRU_MSG.ExtraData"}
     /\ args.msg[1].ExtraDataIndex <= args.msg[1].DataSize
     /\ args.msg[1].DataSize <= 4128)
        => LET m == args.msg[1]
               D == IF op = "PASSTHRU_MSG.Data"
                    THEN outcome.result.octets ELSE Data(m).octets
               E == IF op = "PASSTHRU_MSG.ExtraData"
                    THEN outcome.result.octets ELSE ExtraData(m).octets
           IN  /\ outcome.kind = "return"
               /\ Len(D) = m.ExtraDataIndex
               /\ \A i \in 1..Len(D) : D[i] = ArrayByte(m._Data, i - 1)
               /\ Len(E) = m.DataSize - m.ExtraDataIndex
               /\ \A i \in 1..Len(E) :
                     E[i] = ArrayByte(m._Data, m.ExtraDataIndex + i - 1)
               /\ D \o E = [i \in 1..m.DataSize |-> ArrayByte(m._Data, i - 1)]

C14_Witness ==
    /\ op = "PASSTHRU_MSG.ExtraData"
    /\ args.msg[1]._Data = <<10, 11, 12, 13, 14>>
    /\ args.msg[1].DataSize = 5
    /\ args.msg[1].ExtraDataIndex = 3
    /\ outcome = Return(PyByteSeq(<<13, 14>>))
    /\ Data(args.msg[1]).octets = <<10, 11, 12>>

\* C15: a protocol identifier outside the named standard set (0x0B .. 0x7FFF,
\* 0x8000 .. 0xFFFF, or 0x10000 and above) round-trips as an integer: reading
\* the ProtocolID accessor of a message that carries it does not fail and
\* yields the same integer value.
C15_ProtocolIDRoundTrip ==
    (/\ op = "PASSTHRU_MSG.ProtocolID"
     /\ args.msg[1]._ProtocolID >= 11)
        => /\ outcome.kind = "return"
           /\ outcome.result.value = <<0, args.msg[1]._ProtocolID>>

\* C16: the RxStatus and TxFlags accessors of a message return a value with
\* exactly the bits stored in the message, for single named flags,
\* combinations of named flags and words with unnamed bits, and reject none.
C16_FlagBitsPreserved ==
    /\ op = "PASSTHRU_MSG.RxStatus"
          => /\ outcome.kind = "return"
             /\ outcome.result.value = <<0, args.msg[1]._RxStatus>>
    /\ op = "PASSTHRU_MSG.TxFlags"
          => /\ outcome.kind = "return"
             /\ outcome.result.value = <<0, args.msg[1]._TxFlags>>

\* C17: PassThruIoctlFastInit passes the caller's message as the input of
\* the FAST_INIT ioctl (an empty message only when the caller gave none) and
\* on success returns the message the native call wrote to the output.
C17_FastInitSendsCallerMessage ==
    op = "PassThruIoctlFastInit" =>
        /\ Len(calls) = 1
        /\ calls[1].args.IoctlID = 5
        /\ calls[1].args.pInput =
              IF args.msg = <<>>
              THEN <<[_ProtocolID |-> 0, _RxStatus |-> 0, _TxFlags |-> 0,
                      Timestamp |-> 0, DataSize |-> 0, ExtraDataIndex |-> 0,
                      _Data |-> <<>>]>>
              ELSE args.msg
        /\ calls[1].status = <<0, 0>>
              => outcome = Return([cls |-> "PASSTHRU_MSG",
                                   msg |-> calls[1].args.pOutput])

\* C18: PassThruIoctlFiveBaudInit sends the FIVE_BAUD_INIT ioctl a 1-byte
\* input array holding the address and a 2-byte output array pre-filled with
\* 0xFF 0xFF, each with its count, and on success returns the response bytes
\* the native call wrote into the output array.
C18_FiveBaudInitReturnsResponse ==
    (op = "PassThruIoctlFiveBaudInit" /\ args.addr \in 0..255) =>
        /\ Len(calls) = 1
        /\ calls[1].args.IoctlID = 4
        /\ calls[1].args.pInput =
              <<[NumOfBytes |-> 1, BytePtr |-> <<args.addr>>]>>
        /\ calls[1].args.pOutput =
              <<[NumOfBytes |-> 2, BytePtr |-> <<255, 255>>]>>
        /\ calls[1].status = <<0, 0>>
              => outcome = Return([cls |-> "bytes",
                                   octets |-> calls[1].args.response])

\* C20: when the native ReadMsgs call reports success, PassThruReadMsgs
\* returns the first n entries of the buffer the native call filled, in
\* buffer order, where n is the count the native call stored; the list never
\* has more entries than the caller's count.
C20_ReadReturnsBufferPrefix ==
    (/\ op = "PassThruReadMsgs"
     /\ calls # <<>>
     /\ calls[1].status = <<0, 0>>)
        => /\ outcome.kind = "return"
           /\ Len(outcome.result.items) <= args.num_msgs
           /\ Len(outcome.result.items) =
                 IF calls[1].args.pNumMsgs <= args.num_msgs
                 THEN calls[1].args.pNumMsgs ELSE args.num_msgs
           /\ \A i \in DOMAIN outcome.result.items :
                 outcome.result.items[i] = calls[1].args.pMsg[i]

C20_Witness ==
    /\ op = "PassThruReadMsgs"
    /\ args.num_msgs = 2
    /\ calls # <<>>
    /\ calls[1].status = <<0, 0>>
    /\ calls[1].args.pNumMsgs = 1
    /\ calls[1].args.pMsg[1].Timestamp = 9
    /\ calls[1].args.pMsg[2].Timestamp = 7
    /\ outcome.kind = "return"
    /\ Len(outcome.result.items) = 1
    /\ outcome.result.items[1].Timestamp = 9

\* the handles the caller gave, and the handles the native call received
GivenHandles ==
    CASE op = "PassThruClose" -> <<args.device_id>>
      [] op = "PassThruStopMsgFilter" -> <<args.channel_id, args.filter_id>>
      [] op = "PassThruStopPeriodicMsg" -> <<args.channel_id, args.msg_id>>
      [] op = "PassThruIoctlReadVbatt" -> <<args.device_id>>
      [] OTHER -> <<args.channel_id>>

ForwardedHandles ==
    CASE op = "PassThruClose" -> <<calls[1].args.DeviceID>>
      [] op = "PassThruStopMsgFilter" ->
             <<calls[1].args.ChannelID, calls[1].args.FilterID>>
      [] op = "PassThruStopPeriodicMsg" ->
             <<calls[1].args.ChannelID, calls[1].args.MsgID>>
      [] OTHER -> <<calls[1].args.ChannelID>>

\* C19: after any sequence of operations, an operation that takes a handle
\* makes its native call with the handle unchanged, whether or not the
\* handle was closed, disconnected or stopped before (or never issued), and
\* ends as the status decides: normally for success, with the J2534Error of
\* the code otherwise, never with a failure found by the binding itself.
C19_NoLifecyclePrevalidation ==
    op # "" =>
        /\ Len(calls) = 1
        /\ ForwardedHandles = GivenHandles
        /\ calls[1].status = <<0, 0>> => outcome.kind = "return"
        /\ calls[1].status # <<0, 0>> => RaisedJ2534Error(calls[1].status)

\* the part of C19 about handles: a released handle is forwarded again
C19_ReleasedHandleForwarded ==
    (op = "PassThruClose"
        /\ [kind |-> "device", handle |-> args.device_id] \in released)
        => /\ Len(calls) = 1
           /\ calls[1].args.DeviceID = args.device_id

\* C21: the timeout PassThruReadMsgs and PassThruWriteMsgs pass to the
\* native call is 0 when the caller's timeout is None or negative and the
\* caller's value when it is >= 0; it is never negative.
C21_TimeoutNormalised ==
    (op \in {"PassThruReadMsgs", "PassThruWriteMsgs"} /\ calls # <<>>) =>
        /\ calls[1].args.Timeout >= 0
        /\ calls[1].args.Timeout =
              IF args.timeout = <<>> THEN 0
              ELSE IF args.timeout[1] < 0 THEN 0
              ELSE args.timeout[1]

C21_Witness ==
    /\ op = "PassThruWriteMsgs"
    /\ args.timeout = <<-1>>
    /\ calls # <<>>
    /\ calls[1].args.Timeout = 0

\* the public operations of J2534Dll
PublicOperations ==
    {"PassThruOpen", "PassThruClose", "PassThruConnect",
     "PassThruDisconnect", "PassThruReadMsgs", "PassThruWriteMsgs",
     "PassThruStartPeriodicMsg", "PassThruStopPeriodicMsg",
     "PassThruStartMsgFilter", "PassThruStopMsgFilter",
     "PassThruSetProgrammingVoltage", "PassThruReadVersion",
     "PassThruGetLastError", "PassThruIoctlGetConfig",
     "PassThruIoctlSetConfig", "PassThruIoctlReadVbatt",
     "PassThruIoctlReadProgVoltage", "PassThruIoctlFiveBaudInit",
     "PassThruIoctlFastInit", "PassThruIoctlClearTxBuffer",
     "PassThruIoctlClearRxBuffer", "PassThruIoctlClearPeriodicMsgs",
     "PassThruIoctlClearMsgFilters", "PassThruIoctlClearFunctMsgLookupTable",
     "PassThruIoctlAddToFunctMsgLookupTable",
     "PassThruIoctlDeleteFromFunctMsgLookupTable"}

\* the operations that can fail before their native call
LocallyChecked ==
    {"PassThruReadMsgs", "PassThruWriteMsgs", "PassThruStartPeriodicMsg",
     "PassThruStartMsgFilter", "PassThruSetProgrammingVoltage",
     "PassThruIoctlFiveBaudInit"}

\* C22: a call of a public operation makes at most one native call: exactly
\* one unless a local failure is raised, in which case none is made; a
\* native failure or timeout is not followed by a second native call.
C22_AtMostOneNativeCall ==
    op \in PublicOperations =>
        /\ Len(calls) <= 1
        /\ op \notin LocallyChecked => Len(calls) = 1
        /\ calls = <<>> =>
              /\ outcome.kind = "raise"
              /\ outcome.exc.type \in {"ValueError", "IndexError", "TypeError"}
        /\ (op = "PassThruStartPeriodicMsg"
               /\ (args.interval < 5 \/ args.interval > 65535))
              => calls = <<>>
        /\ (op = "PassThruStartPeriodicMsg" /\ args.msg # <<>>
               /\ 5 <= args.interval /\ args.interval <= 65535)
              => Len(calls) = 1
        /\ (op = "PassThruWriteMsgs" /\ args.msgs # <<>>) => Len(calls) = 1
        /\ (op = "PassThruReadMsgs" /\ args.num_msgs >= 1) => Len(calls) = 1

C22_Witness ==
    /\ op = "PassThruWriteMsgs"
    /\ Len(calls) = 1
    /\ calls[1].status = <<0, 9>>
    /\ outcome.kind = "raise"
    /\ outcome.exc.type = "J2534Error"

====
